---------------------------- MODULE Spec2Model ----------------------------
(***************************************************************************)
(* SSD1306 OLED driver (src/microbit/ssd1306.py): the SSD1306 base class   *)
(* and its I2C transport subclass SSD1306_I2C.                             *)
(*                                                                         *)
(* The state is the driver object's fields, the I2C bus as the sequence of *)
(* writes handed to i2c.write, and the sequence of write_cmd / write_data  *)
(* calls the driver made.  Every method is one action; the bus may raise   *)
(* on any write (i2c.write raising OSError), which unwinds the method, and *)
(* as the script has no exception handler, ends the program.               *)
(***************************************************************************)
EXTENDS Integers, Sequences, FiniteSets, TLC

VARIABLES
    phase,          \* "new" | "ready" | "failed" (constructor raised)
    width, height, external_vcc, pages, buffer,   \* SSD1306 fields
    addr, temp,     \* SSD1306_I2C fields
    calls,          \* write_cmd / write_data calls made by the driver, in order
    bus,            \* i2c.write(addr, bytes) calls, in order
    err,            \* the exception the last method raised, "none" if it returned
    hist            \* the methods called so far: name, arguments (the
                    \* first is the write the bus raises on, 0 for none),
                    \* and Len(calls) before the call

vars == <<phase, width, height, external_vcc, pages, buffer,
          addr, temp, calls, bus, err, hist>>

---------------------------------------------------------------------------
(* Bounds of the model *)

\* runtime method calls after construction
MaxOps == 2
\* the narrowest panel modelled beside the 64- and 128-column ones
SmallWidth == 3

Widths == {SmallWidth, 64, 128}
\* panel heights that are a multiple of 8
Heights == {8, 32, 64}
\* a height that is not a multiple of 8
BadHeights == {12}
\* bus addresses tried: the default 0x3c and one other
Addrs == {60, 61}
\* contrast levels tried beside the whole byte domain of SpecLevels
Levels == {0, 255}

---------------------------------------------------------------------------
(* register definitions *)

SET_CONTRAST == 129
SET_ENTIRE_ON == 164
SET_NORM_INV == 166
SET_DISP == 174
SET_MEM_ADDR == 32
SET_COL_ADDR == 33
SET_PAGE_ADDR == 34
SET_DISP_START_LINE == 64
SET_SEG_REMAP == 160
SET_MUX_RATIO == 168
SET_COM_OUT_DIR == 192
SET_DISP_OFFSET == 211
SET_COM_PIN_CFG == 218
SET_DISP_CLK_DIV == 213
SET_PRECHARGE == 217
SET_VCOM_DESEL == 219
SET_CHARGE_PUMP == 141

---------------------------------------------------------------------------
(* Python integer operators on non-negative ints *)

RECURSIVE BitOr(_, _)
BitOr(a, b) ==
    IF a = 0 THEN b
    ELSE IF b = 0 THEN a
    ELSE (IF a % 2 = 1 \/ b % 2 = 1 THEN 1 ELSE 0) + 2 * BitOr(a \div 2, b \div 2)

RECURSIVE BitAnd(_, _)
BitAnd(a, b) ==
    IF a = 0 \/ b = 0 THEN 0
    ELSE (IF a % 2 = 1 /\ b % 2 = 1 THEN 1 ELSE 0) + 2 * BitAnd(a \div 2, b \div 2)

\* bool is an int subclass: True is 1, False is 0
BoolInt(b) == IF b THEN 1 ELSE 0

\* bytearray(n): n zero bytes
bytearray(n) == [i \in 1..n |-> 0]

---------------------------------------------------------------------------
(* The I2C transport.  t is the transport side of the object:              *)
(* [addr, temp, calls, bus, err].  raises says whether i2c.write raises on *)
(* this write.                                                             *)

Cmd(c) == [kind |-> "cmd", val |-> <<c>>]
Data(b) == [kind |-> "data", val |-> b]

i2c_write(t, bytes, raises) ==
    [t EXCEPT !.bus = Append(@, [addr |-> t.addr, bytes |-> bytes]),
              !.err = IF raises THEN "OSError" ELSE @]

\* write_cmd keeping seven bits of the command byte
write_cmd_7bit(t, cmd, raises) ==
    LET temp1 == [t.temp EXCEPT ![1] = 128, ![2] = cmd % 128]
    IN  i2c_write([t EXCEPT !.temp = temp1, !.calls = Append(@, Cmd(cmd))],
                  temp1, raises)

\* write_cmd sending the command buffer before storing the command in it
write_cmd_stale(t, cmd, raises) ==
    LET temp1 == [t.temp EXCEPT ![1] = 128, ![2] = cmd % 256]
    IN  [i2c_write([t EXCEPT !.calls = Append(@, Cmd(cmd))],
                   [t.temp EXCEPT ![1] = 128], raises)
            EXCEPT !.temp = temp1]

write_cmd(t, cmd, raises) ==
    LET temp1 == [t.temp EXCEPT ![1] = 128, ![2] = cmd % 256]
    IN  i2c_write([t EXCEPT !.temp = temp1, !.calls = Append(@, Cmd(cmd))],
                  temp1, raises)

write_data(t, buf, raises) ==
    i2c_write([t EXCEPT !.calls = Append(@, Data(buf))], <<64>> \o buf, raises)

\* Drive with the exception swallowed: the writes after the raising one
\* are still made
RECURSIVE Drive_on(_, _, _)
Drive_on(t, steps, k) ==
    IF steps = <<>> THEN t
    ELSE LET s == Head(steps)
             t1 == IF s.kind = "cmd"
                   THEN write_cmd(t, s.val[1], k = 1)
                   ELSE write_data(t, s.val, k = 1)
         IN  Drive_on(t1, Tail(steps), IF k = 0 THEN 0 ELSE k - 1)

\* Drive of a driver that keeps a power state: once display-off was the
\* last command sent, a method writes nothing (Drive_run makes the writes)
RECURSIVE Drive_run(_, _, _)
Drive_run(t, steps, k) ==
    IF steps = <<>> \/ t.err # "none" THEN t
    ELSE LET s == Head(steps)
             t1 == IF s.kind = "cmd"
                   THEN write_cmd(t, s.val[1], k = 1)
                   ELSE write_data(t, s.val, k = 1)
         IN  Drive_run(t1, Tail(steps), IF k = 0 THEN 0 ELSE k - 1)
Drive_off_blocks(t, steps, k) ==
    IF t.temp = <<128, 174>> THEN t ELSE Drive_run(t, steps, k)

\* Drive of a driver that keeps the window: a method that starts with the
\* column-address command right after a write of the same page end sends
\* its data write only
Drive_window_kept(t, steps, k) ==
    IF Len(steps) = 7 /\ steps[1] = Cmd(33) /\ t.temp = <<128, steps[6].val[1]>>
    THEN Drive_run(t, <<steps[7]>>, k)
    ELSE Drive_run(t, steps, k)

\* The writes of one method, in program order; k is the write (counted from
\* 1 within the method) on which the bus raises, 0 for none.  An exception
\* propagates: nothing after the raising write is executed.
RECURSIVE Drive(_, _, _)
Drive(t, steps, k) ==
    IF steps = <<>> \/ t.err # "none" THEN t
    ELSE LET s == Head(steps)
             t1 == IF s.kind = "cmd"
                   THEN write_cmd(t, s.val[1], k = 1)
                   ELSE write_data(t, s.val, k = 1)
         IN  Drive(t1, Tail(steps), IF k = 0 THEN 0 ELSE k - 1)

---------------------------------------------------------------------------
(* The driver's methods as the writes they make *)

\* init_cmds without the 32-row branch of the COM pin configuration
init_cmds_one_pinout(h, evcc) ==
    << BitOr(SET_DISP, 0),
       SET_MEM_ADDR, 0,
       BitOr(SET_DISP_START_LINE, 0),
       BitOr(SET_SEG_REMAP, 1),
       SET_MUX_RATIO, h - 1,
       BitOr(SET_COM_OUT_DIR, 8),
       SET_DISP_OFFSET, 0,
       SET_COM_PIN_CFG, 18,
       SET_DISP_CLK_DIV, 128,
       SET_PRECHARGE, IF evcc THEN 34 ELSE 241,
       SET_VCOM_DESEL, 48,
       SET_CONTRAST, 255,
       SET_ENTIRE_ON,
       SET_NORM_INV,
       SET_CHARGE_PUMP, IF evcc THEN 16 ELSE 20,
       BitOr(SET_DISP, 1) >>

init_cmds(h, evcc) ==
    << BitOr(SET_DISP, 0),
       SET_MEM_ADDR, 0,
       BitOr(SET_DISP_START_LINE, 0),
       BitOr(SET_SEG_REMAP, 1),
       SET_MUX_RATIO, h - 1,
       BitOr(SET_COM_OUT_DIR, 8),
       SET_DISP_OFFSET, 0,
       SET_COM_PIN_CFG, IF h = 32 THEN 2 ELSE 18,
       SET_DISP_CLK_DIV, 128,
       SET_PRECHARGE, IF evcc THEN 34 ELSE 241,
       SET_VCOM_DESEL, 48,
       SET_CONTRAST, 255,
       SET_ENTIRE_ON,
       SET_NORM_INV,
       SET_CHARGE_PUMP, IF evcc THEN 16 ELSE 20,
       BitOr(SET_DISP, 1) >>

\* show without the 32-column shift of 64-pixel-wide panels
show_unshifted(w, p, buf) ==
    << Cmd(SET_COL_ADDR), Cmd(0), Cmd(w - 1),
       Cmd(SET_PAGE_ADDR), Cmd(0), Cmd(p - 1),
       Data(buf) >>

\* show with the page window ending at pages instead of pages - 1
show_page_end(w, p, buf) ==
    LET shift == IF w = 64 THEN 32 ELSE 0
    IN  << Cmd(SET_COL_ADDR), Cmd(0 + shift), Cmd((w - 1) + shift),
           Cmd(SET_PAGE_ADDR), Cmd(0), Cmd(p),
           Data(buf) >>

\* show transferring the first page only
show_one_page(w, p, buf) ==
    LET shift == IF w = 64 THEN 32 ELSE 0
    IN  << Cmd(SET_COL_ADDR), Cmd(0 + shift), Cmd((w - 1) + shift),
           Cmd(SET_PAGE_ADDR), Cmd(0), Cmd(p - 1),
           Data(SubSeq(buf, 1, w)) >>

show(w, p, buf) ==
    LET shift == IF w = 64 THEN 32 ELSE 0
        x0 == 0 + shift
        x1 == (w - 1) + shift
    IN  << Cmd(SET_COL_ADDR), Cmd(x0), Cmd(x1),
           Cmd(SET_PAGE_ADDR), Cmd(0), Cmd(p - 1),
           Data(buf) >>

poweroff == << Cmd(BitOr(SET_DISP, 0)) >>

\* poweron with the display-on bit left out
poweron_bit_clear == << Cmd(BitOr(SET_DISP, 0)) >>

poweron == << Cmd(BitOr(SET_DISP, 1)) >>

\* contrast sending the level as display data
contrast_as_data(level) == << Cmd(SET_CONTRAST), Data(<<level>>) >>

contrast(level) == << Cmd(SET_CONTRAST), Cmd(level) >>

\* invert with the operand bit left out
invert_base(inv) == << Cmd(SET_NORM_INV) >>

invert(inv) == << Cmd(BitOr(SET_NORM_INV, BitAnd(BoolInt(inv), 1))) >>

\* framebuf.FrameBuffer.fill(c) on a MONO_VLSB buffer
fill(buf, c) == [i \in 1..Len(buf) |-> IF c # 0 THEN 255 ELSE 0]

\* framebuf.FrameBuffer.pixel(x, y, c) on a MONO_VLSB buffer of stride w
byte_index(w, x, y) == (y \div 8) * w + x
\* bit_mask with the top row of a page in the most significant bit
bit_mask_msb(y) == 2 ^ (7 - (y % 8))
bit_mask(y) == 2 ^ (y % 8)
pixel(buf, w, x, y, c) ==
    LET i == byte_index(w, x, y) + 1
    IN  [buf EXCEPT ![i] = IF c # 0 THEN BitOr(@, bit_mask(y))
                           ELSE BitAnd(@, 255 - bit_mask(y))]

\* init_display showing the buffer before the command loop
init_display_show_first(t, w, h, evcc, p, buf, k) ==
    LET cmds == [i \in 1..Len(init_cmds(h, evcc)) |-> Cmd(init_cmds(h, evcc)[i])]
        b1 == fill(buf, 0)
    IN  [t |-> Drive(t, show(w, p, b1) \o cmds, k), buffer |-> b1]

\* init_display: the command loop, then framebuffer.fill(0) and show().
\* Gives the transport and the buffer it leaves; k as for Drive, counted
\* over the whole of init_display.
init_display(t, w, h, evcc, p, buf, k) ==
    LET cmds == [i \in 1..Len(init_cmds(h, evcc)) |-> Cmd(init_cmds(h, evcc)[i])]
        t1 == Drive(t, cmds, k)
        b1 == fill(buf, 0)
    IN  IF t1.err # "none"
        THEN [t |-> t1, buffer |-> buf]
        ELSE [t |-> Drive(t1, show(w, p, b1),
                          IF k > Len(cmds) THEN k - Len(cmds) ELSE 0),
              buffer |-> b1]

---------------------------------------------------------------------------
(* State machine *)

Transport == [addr |-> addr, temp |-> temp, calls |-> calls, bus |-> bus,
              err |-> "none"]

Entry(name, args) == [name |-> name, args |-> args, base |-> Len(calls)]

Init ==
    /\ phase = "new"
    /\ width = 0 /\ height = 0 /\ external_vcc = FALSE
    /\ pages = 0 /\ buffer = <<>>
    /\ addr = 0 /\ temp = <<>>
    /\ calls = <<>> /\ bus = <<>>
    /\ err = "none"
    /\ hist = <<>>

\* self.pages and self.buffer as __init__ sets them
new_pages(h) == h \div 8
new_buffer_by_height(w, h, p) == bytearray(h * w)
new_buffer(w, h, p) == bytearray(p * w)

\* SSD1306_I2C(width, height, i2c, addr, external_vcc).  strict: the
\* framebuf build rejects a buffer too small for width x height.
SSD1306_I2C(w, h, a, evcc, strict, k) ==
    /\ phase = "new"
    /\ LET p == new_pages(h)
           buf == new_buffer(w, h, p)
           small == Len(buf) < ((h + 7) \div 8) * w
           t0 == [addr |-> a, temp |-> bytearray(2), calls |-> <<>>,
                  bus |-> <<>>, err |-> "none"]
           r == IF strict /\ small
                THEN [t |-> [t0 EXCEPT !.err = "ValueError"], buffer |-> buf]
                ELSE init_display(t0, w, h, evcc, p, buf, k)
           t1 == r.t
       IN  /\ width' = w /\ height' = h /\ external_vcc' = evcc
           /\ pages' = p
           /\ buffer' = r.buffer
           /\ addr' = a /\ temp' = t1.temp
           /\ calls' = t1.calls /\ bus' = t1.bus /\ err' = t1.err
           /\ phase' = IF t1.err = "none" THEN "ready" ELSE "failed"
           /\ hist' = <<Entry("init", <<k>>)>>

CanCall == phase = "ready" /\ err = "none" /\ Len(hist) <= MaxOps

\* a method that only writes to the transport
Send(name, args, steps, k) ==
    /\ CanCall
    /\ LET t1 == Drive(Transport, steps, k)
       IN  /\ temp' = t1.temp /\ calls' = t1.calls /\ bus' = t1.bus
           /\ err' = t1.err
    /\ hist' = Append(hist, Entry(name, args))
    /\ UNCHANGED <<phase, width, height, external_vcc, pages, buffer, addr>>

\* init_display() called again on the constructed driver
InitDisplay(k) ==
    /\ CanCall
    /\ LET r == init_display(Transport, width, height, external_vcc, pages,
                             buffer, k)
       IN  /\ temp' = r.t.temp /\ calls' = r.t.calls /\ bus' = r.t.bus
           /\ err' = r.t.err
           /\ buffer' = r.buffer
    /\ hist' = Append(hist, Entry("init_display", <<k>>))
    /\ UNCHANGED <<phase, width, height, external_vcc, pages, addr>>

Show(k) == Send("show", <<k>>, show(width, pages, buffer), k)

PowerOff(k) == Send("poweroff", <<k>>, poweroff, k)

PowerOn(k) == Send("poweron", <<k>>, poweron, k)

Contrast(level, k) == Send("contrast", <<k, level>>, contrast(level), k)

Invert(inv, k) == Send("invert", <<k, BoolInt(inv)>>, invert(inv), k)

\* framebuffer.fill(c) by the caller
Fill(c) ==
    /\ CanCall
    /\ buffer' = fill(buffer, c)
    /\ hist' = Append(hist, Entry("fill", <<0, c>>))
    /\ UNCHANGED <<phase, width, height, external_vcc, pages, addr, temp,
                   calls, bus, err>>

\* framebuffer.pixel(x, y, c) on the constructed driver, (x, y) on the panel
SetPixel(x, y, c) ==
    /\ phase = "ready" /\ err = "none"
    /\ x \in 0..(width - 1) /\ y \in 0..(height - 1)
    /\ byte_index(width, x, y) < Len(buffer)
    /\ buffer' = pixel(buffer, width, x, y, c)
    /\ hist' = Append(hist, Entry("pixel", <<0, x, y, c>>))
    /\ UNCHANGED <<phase, width, height, external_vcc, pages, addr, temp,
                   calls, bus, err>>

\* framebuffer.pixel(x, y, c) by the caller, within the bound on calls
Pixel(x, y, c) == CanCall /\ SetPixel(x, y, c)

\* the pixels tried: the last corner and one inside the second page
Points == {<<width - 1, height - 1>>, <<1, 9>>}
\* the writes of a repeated init_display on which the bus is made to raise:
\* none, the last command, the data write of its show
ReinitFaults == {0, 25, 32}

Next ==
    \/ \E w \in Widths, h \in Heights \cup BadHeights, a \in Addrs,
          evcc \in BOOLEAN, strict \in BOOLEAN, k \in 0..32 :
            SSD1306_I2C(w, h, a, evcc, strict, k)
    \/ \E k \in ReinitFaults : InitDisplay(k)
    \/ \E k \in 0..7 : Show(k)
    \/ \E k \in 0..1 : PowerOff(k)
    \/ \E k \in 0..1 : PowerOn(k)
    \/ \E level \in Levels, k \in 0..2 : Contrast(level, k)
    \/ \E inv \in BOOLEAN, k \in 0..1 : Invert(inv, k)
    \/ \E c \in 0..1 : Fill(c)
    \/ \E pt \in Points, c \in 0..1 : Pixel(pt[1], pt[2], c)

Spec == Init /\ [][Next]_vars

\* The contrast method over the whole byte domain, called on the driver as
\* the constructor leaves it
AnyContrast(level, k) == Len(hist) = 1 /\ Contrast(level, k)

NextLevels ==
    \/ \E w \in Widths, h \in Heights \cup BadHeights, a \in Addrs,
          evcc \in BOOLEAN, strict \in BOOLEAN, k \in 0..32 :
            SSD1306_I2C(w, h, a, evcc, strict, k)
    \/ \E level \in 0..255, k \in 0..2 : AnyContrast(level, k)

SpecLevels == Init /\ [][NextLevels]_vars

\* Pixel round trips: a small panel whose buffer the caller has drawn any
\* content into (as the script does with fill_rect and blit), then one
\* pixel set on and the same pixel set off.
PixelWidth == 2
PixelHeights == {8, 16}
\* byte values drawn: none, all, and two complementary bit patterns
PriorBytes == {0, 90, 165, 255}

InitPixel ==
    \E w \in 1..PixelWidth, h \in PixelHeights :
      \E prior \in [1..(w * new_pages(h)) -> PriorBytes] :
        LET p == new_pages(h)
            t0 == [addr |-> 60, temp |-> bytearray(2), calls |-> <<>>,
                   bus |-> <<>>, err |-> "none"]
            r == init_display(t0, w, h, FALSE, p, new_buffer(w, h, p), 0)
        IN  /\ phase = "ready"
            /\ width = w /\ height = h /\ external_vcc = FALSE
            /\ pages = p
            /\ buffer = prior
            /\ addr = 60 /\ temp = r.t.temp
            /\ calls = r.t.calls /\ bus = r.t.bus
            /\ err = "none"
            /\ hist = << [name |-> "init", args |-> <<0>>, base |-> 0],
                         [name |-> "draw", args |-> prior,
                          base |-> Len(r.t.calls)] >>

TurnOn(x, y) == Len(hist) = 2 /\ SetPixel(x, y, 1)

\* the pixel just set on is set off
TurnOff ==
    /\ Len(hist) = 3 /\ hist[3].name = "pixel" /\ hist[3].args[4] = 1
    /\ SetPixel(hist[3].args[2], hist[3].args[3], 0)

NextPixel ==
    \/ \E x \in 0..(PixelWidth - 1), y \in 0..15 : TurnOn(x, y)
    \/ TurnOff

SpecPixel == InitPixel /\ [][NextPixel]_vars

---------------------------------------------------------------------------
(* Vocabulary of the properties *)

Last == hist[Len(hist)]
\* the write_cmd / write_data calls of the last method called
Issued == SubSeq(calls, Last.base + 1, Len(calls))
\* the i2c.write calls of the last method called
OnBus == SubSeq(bus, Last.base + 1, Len(bus))
IsPrefix(s, t) == Len(s) <= Len(t) /\ \A i \in 1..Len(s) : s[i] = t[i]
Constructed == phase = "ready"
ValidGeometry == height % 8 = 0
\* the write of the constructor on which the bus raised, 0 for none
InitFault == hist[1].args[1]
\* the bytes of the initialization sequence, as the datasheet numbers them
InitBytes(h, evcc) ==
    << 174, 32, 0, 64, 161, 168, h - 1, 200, 211, 0,
       218, IF h = 32 THEN 2 ELSE 18, 213, 128,
       217, IF evcc THEN 34 ELSE 241, 219, 48, 129, 255, 164, 166,
       141, IF evcc THEN 16 ELSE 20, 175 >>
InitLen == Len(InitBytes(0, FALSE))

---------------------------------------------------------------------------
(* C1: for every width, every height that is a multiple of 8 and either    *)
(* external_vcc flag, a construction that returns has issued through       *)
(* write_cmd, before any other transport write, exactly the 25 bytes of    *)
(* the initialization sequence in order (16 commands with their operands), *)
(* each reaching the bus as one write; the write after them is show's      *)
(* column-address command, so the sequence holds nothing else.             *)
C1_InitSequence ==
    (Constructed /\ ValidGeometry) =>
        /\ InitLen = 25
        /\ Len(calls) > 25
        /\ \A i \in 1..25 :
              /\ calls[i] = [kind |-> "cmd", val |-> <<InitBytes(height, external_vcc)[i]>>]
              /\ bus[i].bytes = <<128, InitBytes(height, external_vcc)[i]>>
        /\ calls[26] = [kind |-> "cmd", val |-> <<33>>]

\* a 32-row panel with external VCC was constructed: both conditional
\* operands take their other value
C1_Witness ==
    /\ Constructed /\ Len(hist) = 1
    /\ height = 32 /\ external_vcc /\ width = 128
    /\ calls[12].val = <<2>> /\ calls[16].val = <<34>> /\ calls[24].val = <<16>>

(* C2: constructing the driver with a height that is not a multiple of 8   *)
(* fails and issues no transport write at all, command or data.  (The name *)
(* of the error raised is not compared.)                                   *)
C2_InvalidGeometryRejected ==
    (phase # "new" /\ ~ValidGeometry) =>
        (phase = "failed" /\ calls = <<>> /\ bus = <<>>)

(* C3: if the bus raises on the k-th write of the initialization sequence, *)
(* construction fails with that error and the k-th write is the last one   *)
(* on the transport: no later command, no window command of show and no    *)
(* data write is issued.  (A construction that framebuf refused never     *)
(* reaches the bus and is not a case of this.)                             *)
C3_InitFailureStops ==
    (phase # "new" /\ err # "ValueError" /\ InitFault \in 1..25) =>
        /\ phase = "failed" /\ err = "OSError"
        /\ Len(calls) = InitFault /\ Len(bus) = InitFault
        /\ \A i \in 1..Len(calls) :
              /\ calls[i].kind = "cmd"
              /\ i <= 25
              /\ calls[i].val = <<InitBytes(height, external_vcc)[i]>> \/ ~ValidGeometry
        /\ ~ENABLED Next

\* the bus raised on the multiplex-ratio operand, the 7th write
C3_Witness ==
    /\ phase = "failed" /\ err = "OSError" /\ InitFault = 7
    /\ Len(calls) = 7 /\ calls[7].val = <<height - 1>>

(* C4: show() asserts the column window [32, 95] when width = 64 and     *)
(* [0, width - 1] for every other width ([0, 127] for width 128): these    *)
(* are the two operand bytes written right after the column-address        *)
(* command 0x21.                                                           *)
InShow == phase # "new" /\ Last.name \in {"show", "init", "init_display"}
\* the calls of the show last run: the show of init_display follows its 25
\* initialization bytes
ShowBase == IF Last.name = "show" THEN Last.base ELSE Last.base + 25
ShowIssued == SubSeq(calls, ShowBase + 1, Len(calls))
ShowOnBus == SubSeq(bus, ShowBase + 1, Len(bus))

C4_ColumnWindow ==
    (InShow /\ Len(ShowIssued) >= 3) =>
        /\ ShowIssued[1] = [kind |-> "cmd", val |-> <<33>>]
        /\ ShowIssued[2].kind = "cmd" /\ ShowIssued[3].kind = "cmd"
        /\ <<ShowIssued[2].val[1], ShowIssued[3].val[1]>> =
              IF width = 64 THEN <<32, 95>> ELSE <<0, width - 1>>
        /\ width = 128 => <<ShowIssued[2].val[1], ShowIssued[3].val[1]>> = <<0, 127>>
        /\ ShowOnBus[2].bytes = <<128, ShowIssued[2].val[1]>>
        /\ ShowOnBus[3].bytes = <<128, ShowIssued[3].val[1]>>

\* a show called on a 64-column panel has asserted [32, 95]
C4_Witness ==
    /\ Constructed /\ Last.name = "show" /\ err = "none" /\ width = 64
    /\ Issued[2].val = <<32>> /\ Issued[3].val = <<95>>

(* C5: every show() call, whatever the buffer holds, issues exactly seven  *)
(* transport writes in this order: command 0x21, x0, x1, command 0x22, 0,  *)
(* pages - 1, and then exactly one data write.  The page window is always  *)
(* [0, pages - 1] and no data write precedes the six command writes.  (A   *)
(* show on which the bus raises stops at the raising write: what it issued *)
(* is the start of the same seven.)                                        *)
C5_ShowSevenWrites ==
    InShow =>
        LET n == Len(ShowIssued)
        IN  /\ n <= 7 /\ Len(ShowOnBus) = n
            /\ err = "none" => n = 7
            /\ \A i \in 1..n : (ShowIssued[i].kind = "data") <=> (i = 7)
            /\ n >= 1 => ShowIssued[1].val = <<33>>
            /\ n >= 4 => ShowIssued[4].val = <<34>>
            /\ n >= 5 => ShowIssued[5].val = <<0>>
            /\ n >= 6 => ShowIssued[6].val = <<pages - 1>>
            /\ \A i \in 1..n : i < 7 => ShowOnBus[i].bytes = <<128>> \o ShowIssued[i].val

\* a completed show of a buffer with a pixel set, on the 8-page panel
C5_Witness ==
    /\ Constructed /\ Last.name = "show" /\ err = "none"
    /\ Len(hist) = 3 /\ hist[2].name = "pixel" /\ hist[2].args[4] = 1
    /\ pages = 8 /\ Len(Issued) = 7 /\ Issued[6].val = <<7>>
    /\ \E i \in 1..Len(buffer) : buffer[i] # 0

(* C6: the payload of the data write issued by show() is exactly the       *)
(* framebuffer at the time of the call, all width * pages bytes in buffer  *)
(* order: after fill(true) it is all 0xFF bytes, after fill(false) all     *)
(* 0x00 bytes.                                                             *)
C6_ShowPayload ==
    (InShow /\ err = "none") =>
        /\ ShowIssued[7] = [kind |-> "data", val |-> buffer]
        /\ Len(ShowIssued[7].val) = width * pages
        /\ ShowOnBus[7].bytes = <<64>> \o buffer
        /\ Len(ShowOnBus[7].bytes) = 1 + width * pages
        /\ (Last.name = "show" /\ hist[Len(hist) - 1].name = "fill") =>
              \A i \in 1..(width * pages) :
                  ShowIssued[7].val[i] =
                      IF hist[Len(hist) - 1].args[2] = 1 THEN 255 ELSE 0

\* fill(1) then show() on the 128 x 64 panel: 1024 bytes of 0xFF
C6_Witness ==
    /\ Constructed /\ Last.name = "show" /\ err = "none"
    /\ Len(hist) = 3 /\ hist[2].name = "fill" /\ hist[2].args[2] = 1
    /\ width = 128 /\ height = 64
    /\ Len(Issued[7].val) = 1024
    /\ \A i \in 1..1024 : Issued[7].val[i] = 255

(* C7: for every valid geometry (height a multiple of 8), pages is         *)
(* height / 8 and the framebuffer holds width * pages bytes, in every      *)
(* state reachable by show, poweroff, poweron, contrast, invert, pixel and *)
(* fill; the length, width and pages never change after construction.      *)
C7_BufferLength ==
    /\ []((Constructed /\ ValidGeometry) =>
            (pages * 8 = height /\ Len(buffer) = width * pages))
    /\ [][Constructed =>
            (Len(buffer') = Len(buffer) /\ width' = width /\ pages' = pages)]_vars

\* the 128 x 64 panel after a fill and a pixel operation
C7_Witness ==
    /\ Constructed /\ width = 128 /\ height = 64 /\ pages = 8
    /\ Len(buffer) = 1024
    /\ Len(hist) = 3 /\ hist[2].name = "fill" /\ hist[3].name = "pixel"

(* C8: invert(true) issues exactly one command write, of byte 0xA7 (the    *)
(* normal/invert base 0xA6 OR 1); invert(false) issues exactly one, of     *)
(* byte 0xA6; neither issues any other write.                              *)
C8_Invert ==
    (phase # "new" /\ Last.name = "invert") =>
        /\ Issued = << [kind |-> "cmd",
                        val |-> <<IF Last.args[2] = 1 THEN 167 ELSE 166>>] >>
        /\ OnBus = << [addr |-> addr,
                       bytes |-> <<128, IF Last.args[2] = 1 THEN 167 ELSE 166>>] >>

\* invert(True) was called and wrote 0xA7
C8_Witness ==
    /\ Constructed /\ Last.name = "invert" /\ Last.args[2] = 1 /\ err = "none"
    /\ Issued[1].val = <<167>>

(* C9: a successful construction ends in a known blank state: after the    *)
(* last initialization command (display on, 0xAF) the framebuffer is all   *)
(* zero, exactly one show() is performed, and the only data write of the   *)
(* construction carries width * pages zero bytes and comes after every     *)
(* initialization command.                                                 *)
C9_BlankAfterInit ==
    (Constructed /\ Len(hist) = 1) =>
        /\ \A i \in 1..Len(buffer) : buffer[i] = 0
        /\ Len(calls) = 32
        /\ calls[25] = [kind |-> "cmd", val |-> <<175>>]
        /\ \A i \in 1..32 : (calls[i].kind = "data") <=> (i = 32)
        /\ <<calls[26].val[1], calls[29].val[1], calls[30].val[1], calls[31].val[1]>>
              = <<33, 34, 0, pages - 1>>
        /\ Len(calls[32].val) = width * pages
        /\ \A i \in 1..(width * pages) : calls[32].val[i] = 0
        /\ bus[32].bytes = <<64>> \o [i \in 1..(width * pages) |-> 0]

\* the 128 x 64 panel right after its constructor returned
C9_Witness ==
    /\ Constructed /\ Len(hist) = 1 /\ width = 128 /\ height = 64
    /\ Len(calls) = 32 /\ calls[32].kind = "data" /\ Len(calls[32].val) = 1024

(* C10: contrast(level) issues exactly two command writes, 0x81 and then   *)
(* level, for every level in 0..255; the byte written is the argument      *)
(* unchanged, neither clamped, masked nor scaled.  (If the bus raises on   *)
(* the first write the second is not made.)                                *)
C10_Contrast ==
    (phase # "new" /\ Last.name = "contrast") =>
        LET level == Last.args[2]
        IN  /\ IsPrefix(Issued, << [kind |-> "cmd", val |-> <<129>>],
                                   [kind |-> "cmd", val |-> <<level>>] >>)
            /\ IsPrefix(OnBus, << [addr |-> addr, bytes |-> <<128, 129>>],
                                  [addr |-> addr, bytes |-> <<128, level>>] >>)
            /\ Len(Issued) >= 1 /\ Len(OnBus) = Len(Issued)
            /\ err = "none" => Len(Issued) = 2
            /\ Last.args[1] = 1 => Len(Issued) = 1

\* contrast(200) was called and 200 went out on the bus
C10_Witness ==
    /\ Constructed /\ Last.name = "contrast" /\ Last.args[2] = 200 /\ err = "none"
    /\ OnBus[2].bytes = <<128, 200>>

(* C11: poweroff() issues exactly one command write, 0xAE (display-on bit  *)
(* cleared), and poweron() issues exactly one command write, 0xAF          *)
(* (display-on bit set); neither issues any other write.                   *)
C11_Power ==
    (phase # "new" /\ Last.name \in {"poweroff", "poweron"}) =>
        /\ Issued = << [kind |-> "cmd",
                        val |-> <<IF Last.name = "poweron" THEN 175 ELSE 174>>] >>
        /\ OnBus = << [addr |-> addr,
                       bytes |-> <<128, IF Last.name = "poweron" THEN 175 ELSE 174>>] >>

\* poweroff() and then poweron() were called: 0xAE, then 0xAF
C11_Witness ==
    /\ Constructed /\ err = "none" /\ Len(hist) = 3
    /\ hist[2].name = "poweroff" /\ Last.name = "poweron"
    /\ calls[Len(calls) - 1].val = <<174>> /\ Issued[1].val = <<175>>

(* C12: show() is the only operation that transfers pixel data.  In any    *)
(* sequence of operations poweroff, poweron, contrast and invert never     *)
(* issue a data write and leave the framebuffer unchanged; every data      *)
(* write on the transport belongs to a show() call (the one init_display  *)
(* makes included) and carries the full buffer.                            *)
\* the calls made by the method hist[j]: positions From(j) .. Upto(j)
From(j) == hist[j].base + 1
Upto(j) == IF j < Len(hist) THEN hist[j + 1].base ELSE Len(calls)
ControlOps == {"poweroff", "poweron", "contrast", "invert"}

C12_OnlyShowTransfers ==
    /\ [](\A i \in 1..Len(calls) :
            /\ (calls[i].kind = "data") <=> (bus[i].bytes[1] = 64)
            /\ calls[i].kind = "data" =>
                  /\ \E j \in 1..Len(hist) :
                        /\ hist[j].name \in {"show", "init", "init_display"}
                        /\ i = Upto(j) /\ i \in From(j)..Upto(j)
                  /\ Len(calls[i].val) = width * pages
                  /\ Len(bus[i].bytes) = 1 + width * pages)
    /\ [][(hist' # hist /\ hist'[Len(hist')].name \in ControlOps) =>
            /\ buffer' = buffer
            /\ Len(calls') > Len(calls)
            /\ \A i \in (Len(calls) + 1)..Len(calls') :
                  calls'[i].kind = "cmd" /\ bus'[i].bytes[1] = 128]_vars
    /\ [][(hist' # hist /\ hist'[Len(hist')].name = "show"
              /\ calls'[Len(calls')].kind = "data") =>
            (calls'[Len(calls')].val = buffer /\ buffer' = buffer)]_vars

\* fill(1) and then contrast(255): the buffer is still all 0xFF and the
\* only data write is the constructor's
C12_Witness ==
    /\ Constructed /\ err = "none" /\ Len(hist) = 3
    /\ hist[2].name = "fill" /\ hist[2].args[2] = 1
    /\ Last.name = "contrast" /\ Len(Issued) = 2
    /\ Len(buffer) > 0 /\ \A i \in 1..Len(buffer) : buffer[i] = 255
    /\ Cardinality({i \in 1..Len(calls) : calls[i].kind = "data"}) = 1

(* C13 as stated: for every on-panel pixel (x, y) and every prior content  *)
(* of the framebuffer, setting the pixel on and then off returns the byte  *)
(* at byte_index(x, y) = (y / 8) * width + x to the value it had before    *)
(* the two operations, and changes no other byte.                          *)
RoundTripDone ==
    /\ Len(hist) = 4 /\ hist[2].name = "draw"
    /\ hist[3].name = "pixel" /\ hist[3].args[4] = 1
    /\ hist[4].name = "pixel" /\ hist[4].args[4] = 0
    /\ hist[4].args[2] = hist[3].args[2] /\ hist[4].args[3] = hist[3].args[3]
PriorBuffer == hist[2].args
TripX == hist[3].args[2]
TripY == hist[3].args[3]
TripIndex == (TripY \div 8) * width + TripX + 1
\* whether bit y % 8 of byte b is set
BitSet(b, y) == (b \div (2 ^ (y % 8))) % 2 = 1

C13_RoundTripRestores ==
    RoundTripDone => buffer = PriorBuffer

(* C13 amended: setting pixel (x, y) on and then off leaves the byte at    *)
(* byte_index(x, y) = (y / 8) * width + x equal to its prior value with    *)
(* bit y % 8 cleared (mask 1 << (y % 8), MONO_VLSB): that is the prior     *)
(* value exactly when the pixel was off before.  No other byte changes.    *)
C13_RoundTripClearsBit ==
    RoundTripDone =>
        /\ Len(buffer) = Len(PriorBuffer)
        /\ \A i \in 1..Len(buffer) : i # TripIndex => buffer[i] = PriorBuffer[i]
        /\ buffer[TripIndex] =
              PriorBuffer[TripIndex]
                - (IF BitSet(PriorBuffer[TripIndex], TripY) THEN 2 ^ (TripY % 8) ELSE 0)
        /\ (buffer = PriorBuffer) <=> ~BitSet(PriorBuffer[TripIndex], TripY)

\* a round trip on a pixel of the second page that was off in a byte with
\* other bits set: the buffer is back to what it was
C13_Witness ==
    /\ RoundTripDone /\ TripY = 9 /\ TripX = 1 /\ width = 2
    /\ PriorBuffer[TripIndex] = 165
    /\ buffer = PriorBuffer

(* C14: in any sequence of operations available on a driver instance the   *)
(* initialization command sequence is issued exactly once, at              *)
(* construction: no operation callable after construction re-emits it, and *)
(* no runtime operation is performed before it has completed.              *)
\* the 25 initialization bytes are the calls i .. i + 24
InitSeqAt(i) ==
    /\ i + 24 <= Len(calls)
    /\ \A n \in 1..25 :
          calls[i + n - 1] =
              [kind |-> "cmd", val |-> <<InitBytes(height, external_vcc)[n]>>]
InitSeqStarts == {i \in 1..Len(calls) : InitSeqAt(i)}
\* every method called after the constructor starts after the constructor's
\* 32 writes
RuntimeAfterInit == \A j \in 2..Len(hist) : hist[j].base >= 32

C14_InitOnce ==
    Constructed => (InitSeqStarts = {1} /\ RuntimeAfterInit)

(* What the code does guarantee about C14: the constructor issues the      *)
(* initialization command sequence exactly once, and no runtime operation  *)
(* is performed before it has completed; show, poweroff, poweron, contrast *)
(* and invert (and fill and pixel) never re-emit it.  It is re-emitted     *)
(* only by an explicit call of the public method init_display(), once per  *)
(* call.                                                                   *)
C14_InitOnlyByInitDisplay ==
    Constructed =>
        /\ 1 \in InitSeqStarts
        /\ InitSeqStarts =
              {From(j) : j \in {n \in 1..Len(hist) :
                                  /\ hist[n].name \in {"init", "init_display"}
                                  /\ Upto(n) - From(n) + 1 >= 25}}
        /\ \A j \in 1..Len(hist) :
              hist[j].name \notin {"init", "init_display"} =>
                  \A i \in From(j)..Upto(j) : i \notin InitSeqStarts
        /\ RuntimeAfterInit

(* C15: after successful construction the driver is always Ready.  In      *)
(* every reachable state, including after any number of poweroff() calls,  *)
(* each of show, poweroff, poweron, contrast and invert is accepted and    *)
(* emits the same writes it would emit on a freshly constructed driver     *)
(* with the same buffer: the writes are fixed by the method, its argument, *)
(* the geometry and the buffer alone, and the driver keeps no power state  *)
(* that blocks or alters an operation.                                     *)
\* what a method writes on a driver that has just been constructed
FreshWrites(name, arg) ==
    CASE name = "poweroff" -> << <<128, 174>> >>
      [] name = "poweron"  -> << <<128, 175>> >>
      [] name = "contrast" -> << <<128, 129>>, <<128, arg>> >>
      [] name = "invert"   -> << <<128, IF arg = 1 THEN 167 ELSE 166>> >>
      [] name = "show"     ->
            << <<128, 33>>,
               <<128, IF width = 64 THEN 32 ELSE 0>>,
               <<128, IF width = 64 THEN 95 ELSE width - 1>>,
               <<128, 34>>, <<128, 0>>, <<128, pages - 1>>,
               <<64>> \o buffer >>
LastArg == IF Len(Last.args) >= 2 THEN Last.args[2] ELSE 0
LastBytes == [i \in 1..Len(OnBus) |-> OnBus[i].bytes]
\* poweroff() was called at some point before the last method
PoweredOffBefore == \E j \in 2..(Len(hist) - 1) : hist[j].name = "poweroff"

\* A call is accepted: it raises only if the bus does, and a call on which
\* the bus does not raise makes all its writes.  The control methods can be
\* called in every state of a constructed driver that has not raised, and
\* show() right after a poweroff().
C15_AlwaysReady ==
    /\ (Constructed /\ Last.name \in ControlOps \cup {"show"}) =>
          /\ IsPrefix(LastBytes, FreshWrites(Last.name, LastArg))
          /\ Len(LastBytes) >= 1
          /\ (err = "none") <=> (Last.args[1] = 0)
          /\ err = "none" => LastBytes = FreshWrites(Last.name, LastArg)
    /\ (Constructed /\ err = "none" /\ Len(hist) <= MaxOps) =>
          /\ ENABLED PowerOff(0) /\ ENABLED PowerOn(0)
          /\ ENABLED Contrast(255, 0) /\ ENABLED Invert(TRUE, 0)
    /\ (Constructed /\ err = "none" /\ Len(hist) = 2 /\ Last.name = "poweroff") =>
          ENABLED Show(0)

\* show() after poweroff() on the 128 x 64 panel: the seven writes of a
\* fresh driver
C15_Witness ==
    /\ Constructed /\ err = "none" /\ Len(hist) = 3
    /\ hist[2].name = "poweroff" /\ Last.name = "show" /\ PoweredOffBefore
    /\ width = 128 /\ height = 64
    /\ Len(LastBytes) = 7 /\ LastBytes[3] = <<128, 127>> /\ LastBytes[6] = <<128, 7>>


\* ---------------------------------------------------------------------------
\* C16: show() leaves the framebuffer, width, height and pages unchanged and
\* keeps no window state between calls: two shows with no buffer mutation
\* between them put the same writes on the bus, each one setting the full
\* column window (0x21, start, end) and the full page window (0x22, 0,
\* pages - 1) before its data write.  The show that ends __init__ or
\* init_display() counts as a show.
ShowsAt(j) == hist[j].name \in {"show", "init", "init_display"}
\* the bus writes of the show run by the j-th method called
ShowFrom(j) == IF hist[j].name = "show" THEN From(j) ELSE From(j) + 25
ShowBytes(j) ==
    [n \in 1..(Upto(j) - ShowFrom(j) + 1) |-> bus[ShowFrom(j) + n - 1].bytes]
Mutates(j) == hist[j].name \in {"fill", "pixel", "init_display"}
SameBuffer(i, j) == \A m \in (i + 1)..(j - 1) : ~Mutates(m)
ShowStep == Len(hist') = Len(hist) + 1 /\ hist'[Len(hist')].name = "show"
FullWindows(s) ==
    /\ Len(s) >= 6 =>
          /\ <<s[1], s[4], s[5], s[6]>> =
                << <<128, 33>>, <<128, 34>>, <<128, 0>>, <<128, pages - 1>> >>
          /\ s[3][2] - s[2][2] = width - 1
    /\ Len(s) = 7 => s[7][1] = 64
    /\ \A n \in 1..Len(s) : n < 7 => s[n][1] = 128

C16_ShowStateless ==
    /\ [](Constructed =>
            \A j \in 2..Len(hist) : hist[j].name = "show" =>
                /\ FullWindows(ShowBytes(j))
                /\ hist[j].args[1] = 0 => Len(ShowBytes(j)) = 7
                /\ \A i \in 1..(j - 1) : (ShowsAt(i) /\ SameBuffer(i, j)) =>
                      /\ IsPrefix(ShowBytes(j), ShowBytes(i))
                      /\ hist[j].args[1] = 0 => ShowBytes(j) = ShowBytes(i))
    /\ [][ShowStep => UNCHANGED <<buffer, width, height, pages>>]_vars

\* two shows in a row on a 64-wide panel put the same seven writes on the bus
C16_Witness ==
    /\ Constructed /\ err = "none" /\ Len(hist) = 3 /\ width = 64
    /\ hist[2].name = "show" /\ hist[3].name = "show"
    /\ Len(ShowBytes(3)) = 7 /\ ShowBytes(3) = ShowBytes(2)
    /\ ShowBytes(3)[2] = <<128, 32>> /\ ShowBytes(3)[3] = <<128, 95>>

\* ---------------------------------------------------------------------------
\* C17: on the I2C transport every write_cmd(c) is exactly one bus write, to
\* the configured address, of the two bytes [0x80, c], and every
\* write_data(buf) exactly one bus write of 0x40 followed by buf; the bus
\* writes are in the order of the calls, and the reused command buffer holds
\* the byte of the latest command, never carrying an earlier one to the bus.
CmdCalls == {i \in 1..Len(calls) : calls[i].kind = "cmd"}
LatestCmd == CHOOSE i \in CmdCalls : \A j \in CmdCalls : j <= i

C17_BusFraming ==
    /\ Len(bus) = Len(calls)
    /\ \A i \in 1..Len(calls) :
          /\ bus[i].addr = addr
          /\ calls[i].kind = "cmd" =>
                /\ calls[i].val[1] \in 0..255
                /\ bus[i].bytes = <<128, calls[i].val[1]>>
          /\ calls[i].kind = "data" =>
                /\ bus[i].bytes = <<64>> \o calls[i].val
                /\ Len(bus[i].bytes) = 1 + Len(calls[i].val)
    /\ phase # "new" =>
          temp = IF CmdCalls = {} THEN <<0, 0>>
                 ELSE <<128, calls[LatestCmd].val[1]>>

\* a contrast(255) after construction at address 0x3D: its two writes differ
\* in the second byte and follow the data write of the constructor's show
C17_Witness ==
    /\ Constructed /\ err = "none" /\ addr = 61 /\ Len(hist) = 2
    /\ Last.name = "contrast" /\ Len(bus) = 34
    /\ bus[32].bytes = <<64>> \o buffer
    /\ bus[33] = [addr |-> 61, bytes |-> <<128, 129>>]
    /\ bus[34] = [addr |-> 61, bytes |-> <<128, 255>>]
===========================================================================
